---- MODULE Spec2Model ----
(***************************************************************************)
(* A model of the NGSI-LD client: the entities endpoint                    *)
(* (src/src/ngsildclient/api/entities.py) run against a broker, and the    *)
(* entity data model (src/src/orionldclient/model).                        *)
(*                                                                         *)
(* Python values are represented as follows.  A str is a TLA+ string, or,  *)
(* where the code looks inside it (ids, URLs), a sequence of one-character *)
(* strings.  None is the string None.  A dict is a function whose domain   *)
(* holds its keys.  A call stack is a sequence of frames, each frame at    *)
(* the source line (pc) it executes or whose call it awaits.               *)
(***************************************************************************)
EXTENDS Integers, Sequences, FiniteSets, TLC

VARIABLES
    client,   \* the Client's configuration: [overwrite, ignore_errors]
    broker,   \* the broker's store: entity id -> the stored attributes
    call,     \* per caller: the endpoint method called and its arguments
    stack,    \* per caller: the frames of the methods being executed
    ret,      \* per caller: the value returned / exception raised by the last frame
    log,      \* per caller: the requests the current call has issued, with the responses
    pre,      \* per caller: the broker's store when the current call started
    prev,     \* per caller: the upsert call that finished right before the current call
    heap,     \* the list objects: address -> the list's items
    objs,     \* the Entity objects: each one's _payload, an ordered dict
    rt,       \* the outcome of the last from_dict(e.to_dict(True)) round trip
    fd,       \* the last from_dict(doc): the document and the outcome
    td,       \* the last to_dict whose result the caller then mutated
    builders, \* the ContextBuilder objects: each one's _ctx, the address of a list
    own,      \* per Entity: the context it was built with, as it alone changed it
    bcall     \* the last call of an attribute builder: its arguments and outcome

\* the endpoint's variables, and the entity model's
pvars == <<client, broker, call, stack, ret, log, pre, prev>>
evars == <<heap, objs, rt, fd, td, builders, own, bcall>>
vars == <<client, broker, call, stack, ret, log, pre, prev,
          heap, objs, rt, fd, td, builders, own, bcall>>

---------------------------------------------------------------------------
(* Values *)

None == "None"

\* str.rsplit("/", 1)[-1] on a sequence of characters: what follows the last "/".
LastSlash(s) ==
    LET at == {i \in 1..Len(s) : s[i] = "/"}
    IN  IF at = {} THEN 0 ELSE CHOOSE i \in at : \A j \in at : j <= i

rsplit_last(s) == SubSeq(s, LastSlash(s) + 1, Len(s))

\* dict[k] = v
Put(d, k, v) == (k :> v) @@ d

EmptyDict == <<>>

IdX == <<"u", ":", "x">>
IdY == <<"u", ":", "y">>

\* The entity ids the callers use, and the attribute names an entity may carry.
Ids == {IdX}
Attrs == {"temperature", "pressure"}

\* An Entity as the endpoint sees it: its id and its payload's attributes.
Entities == [id : Ids, attrs : SUBSET Attrs]

\* The callers of the endpoint.
Callers == {"c1"}

HTTP_CONFLICT == 409

---------------------------------------------------------------------------
(* The broker and the transport: what a request does to the store and what *)
(* response comes back.  fault marks a response a conformant broker would  *)
(* not give to that request in that state.                                 *)

\* self.url, as a prefix of the Location the broker answers a POST with
ENDPOINT_URL == <<"e", "/">>

Response(st, headers, body, store, fault) ==
    [st |-> st, headers |-> headers, body |-> body, store |-> store, fault |-> fault]

Stored(b, e) == [i \in DOMAIN b \cup {e.id} |-> IF i = e.id THEN e.attrs ELSE b[i]]

Removed(b, id) == [i \in DOMAIN b \ {id} |-> b[i]]

\* POST /entities/ with the entity's payload
broker_post(b, e) ==
    (IF e.id \in DOMAIN b
     THEN {Response(409, EmptyDict, {}, b, FALSE)}
     ELSE {Response(201, "Location" :> (ENDPOINT_URL \o e.id), {}, Stored(b, e), FALSE),
           Response(201, EmptyDict, {}, Stored(b, e), TRUE),
           Response(201, "Location" :> (ENDPOINT_URL \o IdY), {}, Stored(b, e), TRUE),
           Response(201, "Location" :> e.id, {}, Stored(b, e), TRUE)})
    \cup {Response(500, EmptyDict, {}, b, TRUE)}

\* DELETE /entities/<id>
broker_delete(b, id) ==
    (IF id \in DOMAIN b
     THEN {Response(204, EmptyDict, {}, Removed(b, id), FALSE)}
     ELSE {Response(404, EmptyDict, {}, b, FALSE)})
    \cup {Response(500, EmptyDict, {}, b, TRUE)}

\* GET /entities/<id>: the body is the JSON object's keys
broker_get(b, id) ==
    (IF id \in DOMAIN b
     THEN {Response(200, EmptyDict, {"@context", "id", "type"} \cup b[id], b, FALSE),
           Response(200, EmptyDict, {"id", "type"} \cup b[id], b, TRUE)}
     ELSE {Response(404, EmptyDict, {"title", "detail"}, b, FALSE),
           Response(200, EmptyDict, {}, b, TRUE)})
    \cup {Response(500, EmptyDict, {}, b, TRUE)}

\* bool(r) of a requests.Response: r.ok
ok(st) == st < 400

\* Client.raise_for_status with the classification of rfc7807_error_handle:
\* the exception a status raises, or None.
raise_for_status(st) ==
    IF ok(st) THEN None
    ELSE IF st = HTTP_CONFLICT THEN "NgsiAlreadyExistsError"
    ELSE "NgsiHttpError"

---------------------------------------------------------------------------
(* Frames, results and the log *)

\* A frame: the method, the line it is at, and its arguments.
Frame(fn, pc, entity, skip, overwrite, check_exists) ==
    [fn |-> fn, pc |-> pc, entity |-> entity, skip |-> skip, overwrite |-> overwrite,
     check_exists |-> check_exists]

Pending == [kind |-> "pending", val |-> None]
ReturnNone == [kind |-> "None", val |-> None]
Return(kind, v) == [kind |-> kind, val |-> v]
Raise(exc) == [kind |-> "exc", val |-> exc]

Request(m, params, reqh, r) ==
    [m |-> m, params |-> params, reqh |-> reqh, st |-> r.st, headers |-> r.headers,
     body |-> r.body, fault |-> r.fault]

Top(c) == stack[c][Len(stack[c])]
Pop(c) == SubSeq(stack[c], 1, Len(stack[c]) - 1)
\* the top frame moves to line pc and calls f
Call(c, pc, f) == Append(Pop(c), [Top(c) EXCEPT !.pc = pc]) \o <<f>>

Executing(c, fn, pc) ==
    /\ stack[c] # <<>>
    /\ Top(c).fn = fn
    /\ Top(c).pc = pc
    /\ ret[c].kind = "pending"

Resumed(c, fn, pc) ==
    /\ stack[c] # <<>>
    /\ Top(c).fn = fn
    /\ Top(c).pc = pc
    /\ ret[c].kind # "pending"

NoArgs == [type |-> None, q |-> None, gq |-> None, ctx |-> None, limit |-> 0, offset |-> 0]

\* An EntityOrId argument: an Entity, or a str holding an id.
AnEntity(e) == [isEntity |-> TRUE, e |-> e, s |-> e.id]
AnId(s) == [isEntity |-> FALSE, e |-> [id |-> s, attrs |-> {}], s |-> s]

URN_PREFIX == <<"u", ":">>

\* Urn.prefix: the id with the URN prefix, added unless it is there already.
Urn_prefix(s) ==
    IF Len(s) >= Len(URN_PREFIX) /\ SubSeq(s, 1, Len(URN_PREFIX)) = URN_PREFIX
    THEN s ELSE URN_PREFIX \o s

\* eid = entity.id if isinstance(entity, Entity) else Urn.prefix(entity)
eid(entity) == IF entity.isEntity THEN entity.e.id ELSE Urn_prefix(entity.s)

ACall(op, entity, skip, overwrite, check_exists, args) ==
    [op |-> op, entity |-> entity, skip |-> skip, overwrite |-> overwrite,
     check_exists |-> check_exists, args |-> args]

Idle == ACall("idle", AnId(IdX), FALSE, FALSE, FALSE, NoArgs)

NoPrev == [op |-> "none", entity |-> AnId(IdX), ret |-> Pending, nofault |-> TRUE]

Done(c) == call[c].op # "idle" /\ stack[c] = <<>>

\* the methods of the requests the current call has issued, in order
Methods(c) == [i \in 1..Len(log[c]) |-> log[c][i].m]

\* every response so far is one a conformant broker gives
NoFault(c) == \A i \in 1..Len(log[c]) : ~log[c][i].fault

Logged(c, m, params, reqh, r) ==
    log' = [log EXCEPT ![c] = Append(@, Request(m, params, reqh, r))]

---------------------------------------------------------------------------
(* Entities.create *)

CallUpdate == [kind |-> "call", val |-> "update"]

\* create_response with a conflict always handed to update, whatever overwrite is
create_response_overwriting(st, headers, e, skip, overwrite, cfg) ==
    IF st = HTTP_CONFLICT /\ skip
    THEN ReturnNone
    ELSE IF st = HTTP_CONFLICT
    THEN CallUpdate
    ELSE IF raise_for_status(st) # None
    THEN Raise(raise_for_status(st))
    ELSE IF "Location" \notin DOMAIN headers
    THEN (IF cfg.ignore_errors THEN ReturnNone ELSE Raise("NgsiApiError"))
    ELSE IF e.id # rsplit_last(headers["Location"])
    THEN Raise("NgsiApiError")
    ELSE Return("entity", e)

\* create_response without the test of skip
create_response_unskipped(st, headers, e, skip, overwrite, cfg) ==
    IF st = HTTP_CONFLICT /\ (overwrite \/ cfg.overwrite)
    THEN CallUpdate
    ELSE IF raise_for_status(st) # None
    THEN Raise(raise_for_status(st))
    ELSE IF "Location" \notin DOMAIN headers
    THEN (IF cfg.ignore_errors THEN ReturnNone ELSE Raise("NgsiApiError"))
    ELSE IF e.id # rsplit_last(headers["Location"])
    THEN Raise("NgsiApiError")
    ELSE Return("entity", e)

\* Lines 49-67: what create does with the response to its POST.
create_response(st, headers, e, skip, overwrite, cfg) ==
    IF st = HTTP_CONFLICT /\ skip
    THEN ReturnNone
    ELSE IF st = HTTP_CONFLICT /\ (overwrite \/ cfg.overwrite)
    THEN CallUpdate
    ELSE IF raise_for_status(st) # None
    THEN Raise(raise_for_status(st))
    ELSE IF "Location" \notin DOMAIN headers
    THEN (IF cfg.ignore_errors THEN ReturnNone ELSE Raise("NgsiApiError"))
    ELSE IF e.id # rsplit_last(headers["Location"])
    THEN Raise("NgsiApiError")
    ELSE Return("entity", e)

create(c) ==
    \/ /\ Executing(c, "create", "L44")
       /\ \E r \in broker_post(broker, Top(c).entity.e) :
            LET out == create_response(r.st, r.headers, Top(c).entity.e,
                                       Top(c).skip, Top(c).overwrite, client)
            IN  /\ broker' = r.store
                /\ Logged(c, "POST", EmptyDict, EmptyDict, r)
                /\ IF out.kind = "call"
                   THEN /\ stack' = [stack EXCEPT ![c] =
                               Call(c, "L53", Frame("update", "L117", Top(c).entity,
                                                    FALSE, FALSE, FALSE))]
                        /\ ret' = ret
                   ELSE /\ stack' = [stack EXCEPT ![c] = Pop(c)]
                        /\ ret' = [ret EXCEPT ![c] = out]
       /\ UNCHANGED <<evars, client, call, pre, prev>>
    \/ /\ Resumed(c, "create", "L53")
       /\ stack' = [stack EXCEPT ![c] = Pop(c)]
       /\ UNCHANGED <<evars, client, broker, call, ret, log, pre, prev>>

---------------------------------------------------------------------------
(* Entities.delete and Entities.exists *)

\* Lines 95-96: raise_for_status(r); return bool(r)
delete_response(st) ==
    IF raise_for_status(st) # None THEN Raise(raise_for_status(st))
    ELSE Return("bool", ok(st))

delete(c) ==
    /\ Executing(c, "delete", "L93")
    /\ \E r \in broker_delete(broker, eid(Top(c).entity)) :
         /\ broker' = r.store
         /\ Logged(c, "DELETE", EmptyDict, EmptyDict, r)
         /\ ret' = [ret EXCEPT ![c] = delete_response(r.st)]
    /\ stack' = [stack EXCEPT ![c] = Pop(c)]
    /\ UNCHANGED <<evars, client, call, pre, prev>>

\* exists_response without the look at the payload
exists_response_by_status(st, body) == Return("bool", ok(st))

\* Lines 102-105: if r: return "@context" in r.json(); return False
exists_response(st, body) ==
    Return("bool", IF ok(st) THEN "@context" \in body ELSE FALSE)

exists(c) ==
    /\ Executing(c, "exists", "L101")
    /\ \E r \in broker_get(broker, eid(Top(c).entity)) :
         /\ broker' = r.store
         /\ Logged(c, "GET", EmptyDict, EmptyDict, r)
         /\ ret' = [ret EXCEPT ![c] = exists_response(r.st, r.body)]
    /\ stack' = [stack EXCEPT ![c] = Pop(c)]
    /\ UNCHANGED <<evars, client, call, pre, prev>>

---------------------------------------------------------------------------
(* Entities.upsert *)

\* upsert_catches with an except clause that catches every exception
upsert_catches_any(r) == r.kind = "exc"

\* upsert_catches without the except clause
upsert_catches_none(r) == FALSE

\* Lines 109-111: what upsert does with the outcome of its first create:
\* the except clause catches NgsiAlreadyExistsError alone.
upsert_catches(r) == r.kind = "exc" /\ r.val = "NgsiAlreadyExistsError"

upsert(c) ==
    \/ /\ Executing(c, "upsert", "L110")
       /\ stack' = [stack EXCEPT ![c] =
              Call(c, "L110", Frame("create", "L44", Top(c).entity, FALSE, FALSE, FALSE))]
       /\ UNCHANGED <<evars, client, broker, call, ret, log, pre, prev>>
    \/ /\ Resumed(c, "upsert", "L110")
       /\ upsert_catches(ret[c])
       /\ stack' = [stack EXCEPT ![c] =
              Call(c, "L112", Frame("delete", "L93", Top(c).entity, FALSE, FALSE, FALSE))]
       /\ ret' = [ret EXCEPT ![c] = Pending]
       /\ UNCHANGED <<evars, client, broker, call, log, pre, prev>>
    \/ /\ Resumed(c, "upsert", "L110")
       /\ ~upsert_catches(ret[c])
       /\ stack' = [stack EXCEPT ![c] = Pop(c)]
       /\ UNCHANGED <<evars, client, broker, call, ret, log, pre, prev>>
    \/ /\ Resumed(c, "upsert", "L112")
       /\ ret[c].kind # "exc"
       /\ stack' = [stack EXCEPT ![c] =
              Call(c, "L113", Frame("create", "L44", Top(c).entity, FALSE, FALSE, FALSE))]
       /\ ret' = [ret EXCEPT ![c] = Pending]
       /\ UNCHANGED <<evars, client, broker, call, log, pre, prev>>
    \/ /\ Resumed(c, "upsert", "L112")
       /\ ret[c].kind = "exc"
       /\ stack' = [stack EXCEPT ![c] = Pop(c)]
       /\ UNCHANGED <<evars, client, broker, call, ret, log, pre, prev>>
    \/ /\ Resumed(c, "upsert", "L113")
       /\ stack' = [stack EXCEPT ![c] = Pop(c)]
       /\ UNCHANGED <<evars, client, broker, call, ret, log, pre, prev>>

---------------------------------------------------------------------------
(* Entities.update *)

\* Line 117, left operand of `check_exists and self.exists(entity)`:
\* exists is called only when this holds.
update_calls_exists(check_exists) == check_exists

\* Line 117, the whole condition once exists has returned.
update_replaces(check_exists, r) == check_exists /\ r.kind = "bool" /\ r.val

update(c) ==
    \/ /\ Executing(c, "update", "L117")
       /\ update_calls_exists(Top(c).check_exists)
       /\ stack' = [stack EXCEPT ![c] =
              Call(c, "L117", Frame("exists", "L101", Top(c).entity, FALSE, FALSE, FALSE))]
       /\ UNCHANGED <<evars, client, broker, call, ret, log, pre, prev>>
    \/ /\ Executing(c, "update", "L117")
       /\ ~update_calls_exists(Top(c).check_exists)
       /\ stack' = [stack EXCEPT ![c] = Pop(c)]
       /\ ret' = [ret EXCEPT ![c] = ReturnNone]
       /\ UNCHANGED <<evars, client, broker, call, log, pre, prev>>
    \/ /\ Resumed(c, "update", "L117")
       /\ update_replaces(Top(c).check_exists, ret[c])
       /\ stack' = [stack EXCEPT ![c] =
              Call(c, "L118", Frame("delete", "L93", Top(c).entity, FALSE, FALSE, FALSE))]
       /\ ret' = [ret EXCEPT ![c] = Pending]
       /\ UNCHANGED <<evars, client, broker, call, log, pre, prev>>
    \/ /\ Resumed(c, "update", "L117")
       /\ ~update_replaces(Top(c).check_exists, ret[c])
       /\ stack' = [stack EXCEPT ![c] = Pop(c)]
       /\ ret' = [ret EXCEPT ![c] = IF ret[c].kind = "exc" THEN ret[c] ELSE ReturnNone]
       /\ UNCHANGED <<evars, client, broker, call, log, pre, prev>>
    \/ /\ Resumed(c, "update", "L118")
       /\ ret[c].kind # "exc"
       /\ stack' = [stack EXCEPT ![c] =
              Call(c, "L119", Frame("create", "L44", Top(c).entity, FALSE, FALSE, FALSE))]
       /\ ret' = [ret EXCEPT ![c] = Pending]
       /\ UNCHANGED <<evars, client, broker, call, log, pre, prev>>
    \/ /\ Resumed(c, "update", "L118")
       /\ ret[c].kind = "exc"
       /\ stack' = [stack EXCEPT ![c] = Pop(c)]
       /\ UNCHANGED <<evars, client, broker, call, ret, log, pre, prev>>
    \/ /\ Resumed(c, "update", "L119")
       /\ stack' = [stack EXCEPT ![c] = Pop(c)]
       /\ UNCHANGED <<evars, client, broker, call, ret, log, pre, prev>>

---------------------------------------------------------------------------
(* Entities._query and Entities.count *)

Truthy(s) == s # None /\ s # ""

\* GET /entities with query parameters: the body stands for the list of entities
broker_query(b) ==
    {Response(200, EmptyDict, DOMAIN b, b, FALSE),
     Response(500, EmptyDict, {}, b, TRUE)}

Digit == ("0" :> 0) @@ ("1" :> 1) @@ ("2" :> 2)

\* the decimal digits of a stored-entity count
Decimal(n) == <<CHOOSE d \in DOMAIN Digit : Digit[d] = n>>

\* GET /entities?count=true: the total comes in the NGSILD-Results-Count header
broker_count(b) ==
    {Response(200, "NGSILD-Results-Count" :> Decimal(Cardinality(DOMAIN b)), {}, b, FALSE),
     Response(200, "NGSILD-Results-Count" :> <<"1", "2">>, {}, b, TRUE),
     Response(200, "NGSILD-Results-Count" :> <<"x">>, {}, b, TRUE),
     Response(200, EmptyDict, {}, b, TRUE),
     Response(500, EmptyDict, {}, b, TRUE)}

\* int(str) for a str of decimal digits
RECURSIVE int(_)
int(s) == IF s = <<>> THEN 0 ELSE 10 * int(SubSeq(s, 1, Len(s) - 1)) + Digit[s[Len(s)]]

IsNumeric(s) == s # <<>> /\ \A i \in 1..Len(s) : s[i] \in DOMAIN Digit

\* Lines 137-138 and 164-165: the filter check of _query and count
MissingFilter(type, q) == type = None /\ q = None

\* Lines 139-144 and 166-171: the filters added to params
WithFilters(params, type, q, gq) ==
    LET p1 == IF Truthy(type) THEN Put(params, "type", type) ELSE params
        p2 == IF Truthy(q) THEN Put(p1, "q", q) ELSE p1
    IN  IF Truthy(gq) THEN Put(p2, "geoQ", gq) ELSE p2

\* query_params without the tests of limit and offset
query_params_unfiltered(type, q, gq, limit, offset) ==
    WithFilters(Put(Put(EmptyDict, "limit", limit), "offset", offset), type, q, gq)

\* Lines 132-144: the params of _query
query_params(type, q, gq, limit, offset) ==
    LET p1 == IF limit # 0 THEN Put(EmptyDict, "limit", limit) ELSE EmptyDict
        p2 == IF offset # 0 THEN Put(p1, "offset", offset) ELSE p1
    IN  WithFilters(p2, type, q, gq)

\* Lines 163-171: the params of count
count_params(type, q, gq) ==
    WithFilters(Put(Put(EmptyDict, "limit", 0), "count", "true"), type, q, gq)

\* Lines 145-150 and 172-177: the request headers
request_headers(accept, ctx) ==
    LET h == Put(Put(EmptyDict, "Accept", accept), "Content-Type", None)
    IN  IF ctx # None THEN Put(h, "Link", ctx) ELSE h

\* Lines 156-159
query_response(st, body) ==
    IF raise_for_status(st) # None THEN Raise(raise_for_status(st))
    ELSE Return("list", body)

\* Lines 183-185
count_response(st, headers) ==
    IF raise_for_status(st) # None THEN Raise(raise_for_status(st))
    ELSE IF "NGSILD-Results-Count" \notin DOMAIN headers THEN Raise("KeyError")
    ELSE IF ~IsNumeric(headers["NGSILD-Results-Count"]) THEN Raise("ValueError")
    ELSE Return("int", int(headers["NGSILD-Results-Count"]))

query(c) ==
    /\ Executing(c, "_query", "L132")
    /\ LET a == call[c].args IN
       \/ /\ MissingFilter(a.type, a.q)
          /\ ret' = [ret EXCEPT ![c] = Raise("ValueError")]
          /\ UNCHANGED <<broker, log>>
       \/ /\ ~MissingFilter(a.type, a.q)
          /\ \E r \in broker_query(broker) :
               /\ broker' = r.store
               /\ Logged(c, "GET", query_params(a.type, a.q, a.gq, a.limit, a.offset),
                         request_headers("application/ld+json", a.ctx), r)
               /\ ret' = [ret EXCEPT ![c] = query_response(r.st, r.body)]
    /\ stack' = [stack EXCEPT ![c] = Pop(c)]
    /\ UNCHANGED <<evars, client, call, pre, prev>>

count(c) ==
    /\ Executing(c, "count", "L163")
    /\ LET a == call[c].args IN
       \/ /\ MissingFilter(a.type, a.q)
          /\ ret' = [ret EXCEPT ![c] = Raise("ValueError")]
          /\ UNCHANGED <<broker, log>>
       \/ /\ ~MissingFilter(a.type, a.q)
          /\ \E r \in broker_count(broker) :
               /\ broker' = r.store
               /\ Logged(c, "GET", count_params(a.type, a.q, a.gq),
                         request_headers("application/json", a.ctx), r)
               /\ ret' = [ret EXCEPT ![c] = count_response(r.st, r.headers)]
    /\ stack' = [stack EXCEPT ![c] = Pop(c)]
    /\ UNCHANGED <<evars, client, call, pre, prev>>

---------------------------------------------------------------------------
(* The callers *)

Targets == {AnEntity(e) : e \in Entities} \cup {AnId(s) : s \in {IdX, <<"x">>}}

QueryArgs == [type : {None, "", "T"}, q : {None, "Q"}, gq : {None, "G"},
              ctx : {None, "C"}, limit : {0, 1}, offset : {0, 1}]

CountArgs == {a \in QueryArgs : a.limit = 0 /\ a.offset = 0}

Calls ==
    {ACall("create", AnEntity(e), s, o, FALSE, NoArgs) :
        e \in Entities, s \in BOOLEAN, o \in BOOLEAN}
    \cup {ACall("upsert", AnEntity(e), FALSE, FALSE, FALSE, NoArgs) : e \in Entities}
    \cup {ACall("update", AnEntity(e), FALSE, FALSE, x, NoArgs) :
        e \in Entities, x \in BOOLEAN}
    \cup {ACall("exists", t, FALSE, FALSE, FALSE, NoArgs) : t \in Targets}
    \cup {ACall("delete", t, FALSE, FALSE, FALSE, NoArgs) : t \in Targets}

QueryCalls ==
    {ACall("_query", AnId(IdX), FALSE, FALSE, FALSE, a) : a \in QueryArgs}
    \cup {ACall("count", AnId(IdX), FALSE, FALSE, FALSE, a) : a \in CountArgs}

\* the line a method starts at
Entry(op) ==
    CASE op = "create" -> "L44"
      [] op = "upsert" -> "L110"
      [] op = "update" -> "L117"
      [] op = "exists" -> "L101"
      [] op = "delete" -> "L93"
      [] op = "_query" -> "L132"
      [] op = "count" -> "L163"

\* A caller that is not inside a call calls a method of the endpoint.
Calling(c, K) ==
    /\ stack[c] = <<>>
    /\ \E k \in K :
         /\ call' = [call EXCEPT ![c] = k]
         /\ stack' = [stack EXCEPT ![c] =
                <<Frame(k.op, Entry(k.op), k.entity, k.skip, k.overwrite, k.check_exists)>>]
    /\ ret' = [ret EXCEPT ![c] = Pending]
    /\ log' = [log EXCEPT ![c] = <<>>]
    /\ pre' = [pre EXCEPT ![c] = broker]
    /\ prev' = [prev EXCEPT ![c] =
           IF Done(c) /\ call[c].op = "upsert"
           THEN [op |-> "upsert", entity |-> call[c].entity, ret |-> ret[c],
                 nofault |-> NoFault(c)]
           ELSE NoPrev]
    /\ UNCHANGED <<evars, client, broker>>

\* a call of create, upsert, update, exists or delete
Invoke(c) == Calling(c, Calls)

\* a call of _query or count
InvokeQuery(c) == Calling(c, QueryCalls)

Stores == UNION {[S -> SUBSET Attrs] : S \in SUBSET Ids}

---------------------------------------------------------------------------
(* The attribute builders (_attribute.py).  A Python value is a record      *)
(* [t, n, s]: its type's name, and what tells two values of the type apart: *)
(* a number n, or for a str its text s.  A str the code looks inside is     *)
(* [t |-> "str", cs |-> its characters].                                    *)

PyVal(t, n, s) == [t |-> t, n |-> n, s |-> s]
IntVal(n) == PyVal("int", n, "")
Str(s) == PyVal("str", 0, s)
NoneVal == PyVal("NoneType", 0, "")
DateTime(n) == PyVal("datetime", n, "")
Date(n) == PyVal("date", n, "")
Time(n) == PyVal("time", n, "")
Chars(cs) == [t |-> "str", cs |-> cs]
Tuple(items) == [t |-> "tuple", items |-> items]
Point(coords) == [t |-> "Point", items |-> coords]

\* the outcome of a builder: the exception it raised, or the document it built
Built(doc) == [raised |-> None, doc |-> doc]
Failed(exc) == [raised |-> exc, doc |-> EmptyDict]

\* iso8601.from_datetime: the ISO-8601 text of a datetime
from_datetime(v) == Str(IF v.n = 1 THEN "2021-10-01T12:00:00Z" ELSE "2022-01-01T00:00:00Z")

\* iso8601.from_date: the ISO-8601 text of a date
from_date(v) == Str(IF v.n = 1 THEN "2021-10-01" ELSE "2022-01-01")

\* iso8601.from_time: the ISO-8601 text of a time
from_time(v) == Str(IF v.n = 1 THEN "12:00:01Z" ELSE "00:00:00Z")

\* iso8601.parse: the temporal type of an ISO-8601 text, or a ValueError
parse(text) ==
    CASE text \in {"2021-10-01T12:00:00Z", "2022-01-01T00:00:00Z"} -> "DateTime"
      [] text \in {"2021-10-01", "2022-01-01"} -> "Date"
      [] text \in {"12:00:00", "12:00:01Z", "00:00:00Z"} -> "Time"
      [] OTHER -> "ValueError"

\* userdata: NgsiDict; `if userdata: property |= userdata`
Merged(property, userdata) ==
    IF DOMAIN userdata # {} THEN userdata @@ property ELSE property

\* observedat, as attached: a datetime is turned into its ISO-8601 text
ObservedAt(observedat) ==
    IF observedat.t = "datetime" THEN from_datetime(observedat) ELSE observedat

\* build_property without the test of the value's type
build_property_unchecked(value, unitcode, observedat, datasetid, userdata) ==
    LET p1 == Put(Put(EmptyDict, "type", Str("Property")), "value", value)
        p2 == IF unitcode # NoneVal THEN Put(p1, "unitCode", unitcode) ELSE p1
    IN  Built(Merged(p2, userdata))

\* build_property, lines 23-49 of _attribute.py
build_property(value, unitcode, observedat, datasetid, userdata) ==
    IF value.t \notin {"int", "float", "bool", "str", "list", "dict"}
    THEN Failed("NgsiUnmatchedAttributeTypeError")
    ELSE LET p1 == Put(Put(EmptyDict, "type", Str("Property")), "value", value)
             p2 == IF unitcode # NoneVal THEN Put(p1, "unitCode", unitcode) ELSE p1
             p3 == IF observedat # NoneVal
                   THEN Put(p2, "observedAt", ObservedAt(observedat)) ELSE p2
             p4 == IF datasetid # NoneVal
                   THEN Put(p3, "datasetId", Chars(Urn_prefix(datasetid.cs))) ELSE p3
         IN  Built(Merged(p4, userdata))

\* build_geoproperty, lines 52-67
build_geoproperty(value) ==
    IF value.t \in {"Point", "LineString", "Polygon"}
    THEN Built(Put(Put(EmptyDict, "type", Str("GeoProperty")), "value", value))
    ELSE IF value.t = "tuple" /\ Len(value.items) = 2
    THEN Built(Put(Put(EmptyDict, "type", Str("GeoProperty")), "value",
                   Point(<<value.items[2], value.items[1]>>)))
    ELSE Failed("NgsiUnmatchedAttributeTypeError")

Temporal(type, text) == [t |-> "dict", type |-> type, text |-> text]

\* build_temporal_property, lines 70-103: a datetime, a date, a time or a
\* str, tested in this order
build_temporal_property(value) ==
    LET tp == Put(EmptyDict, "type", Str("TemporalProperty")) IN
    IF value.t = "datetime"
    THEN Built(Put(tp, "value", Temporal("DateTime", from_datetime(value).s)))
    ELSE IF value.t = "date"
    THEN Built(Put(tp, "value", Temporal("Date", from_date(value).s)))
    ELSE IF value.t = "time"
    THEN Built(Put(tp, "value", Temporal("Time", from_time(value).s)))
    ELSE IF value.t = "str"
    THEN (IF parse(value.s) = "ValueError"
          THEN Failed("NgsiDateFormatError")
          ELSE Built(Put(tp, "value", Temporal(parse(value.s), value.s))))
    ELSE Failed("NgsiUnmatchedAttributeTypeError")

\* build_relationship, lines 106-120
build_relationship(value, observedat, userdata) ==
    LET p1 == Put(Put(EmptyDict, "type", Str("Relationship")),
                  "object", Chars(Urn_prefix(value.cs)))
        p2 == IF observedat # NoneVal
              THEN Put(p1, "observedAt", ObservedAt(observedat)) ELSE p1
    IN  Built(Merged(p2, userdata))

---------------------------------------------------------------------------
(* The Entity (entity.py).  Its _payload is a dict, which keeps the order   *)
(* its keys were inserted in: [keys, vals].  A value of the payload is a    *)
(* str, a reference to a list object of the heap (the context), or an       *)
(* attribute document.                                                      *)

\* the number of Entity objects constructed in a behaviour
MaxEntities == 2

Ref(a) == [t |-> "list", ref |-> a]

\* ContextBuilder.DEFAULT, lines 27-30 of entity.py
DEFAULT == <<"https://schema.lab.fiware.org/ld/context",
             "https://uri.etsi.org/ngsi-ld/v1/ngsi-ld-core-context.jsonld">>

\* the address of the list object ContextBuilder.DEFAULT
DEFAULT_REF == 1
Doc(d) == [t |-> "dict", doc |-> d]

Range(q) == {q[i] : i \in 1..Len(q)}

\* d[k] = v on a dict: a new key goes last, a key it has keeps its place
ODSet(d, k, v) ==
    [keys |-> IF k \in Range(d.keys) THEN d.keys ELSE Append(d.keys, k),
     vals |-> Put(d.vals, k, v)]

\* del d[k]
ODDel(d, k) ==
    [keys |-> SelectSeq(d.keys, LAMBDA x : x # k),
     vals |-> [x \in DOMAIN d.vals \ {k} |-> d.vals[x]]]

\* d |= other
RECURSIVE ODUpdateFrom(_, _, _)
ODUpdateFrom(d, other, i) ==
    IF i > Len(other.keys) THEN d
    ELSE ODUpdateFrom(ODSet(d, other.keys[i], other.vals[other.keys[i]]), other, i + 1)

ODUpdate(d, other) == ODUpdateFrom(d, other, 1)

\* what == compares of a value, a list being compared by its items
Contents(h, v) == IF "ref" \in DOMAIN v THEN [t |-> "list", listitems |-> h[v.ref]] ELSE v

\* d1 == d2 on dicts: the same keys with equal values, in whatever order
ODEq(h, d1, d2) ==
    /\ DOMAIN d1.vals = DOMAIN d2.vals
    /\ \A k \in DOMAIN d1.vals : Contents(h, d1.vals[k]) = Contents(h, d2.vals[k])

\* bool(v) of a value of the payload
IsTruthy(h, v) ==
    IF "ref" \in DOMAIN v THEN h[v.ref] # <<>>
    ELSE IF "cs" \in DOMAIN v THEN v.cs # <<>>
    ELSE IF "doc" \in DOMAIN v THEN DOMAIN v.doc # {}
    ELSE v # NoneVal /\ v # Str("")

\* `not entity.get(k, None)`
Missing(h, d, k) == k \notin DOMAIN d.vals \/ ~IsTruthy(h, d.vals[k])

\* Entity.__init__, lines 62-65: the payload of a new Entity
NewPayload(id, type, context) ==
    [keys |-> <<"@context", "id", "type">>,
     vals |-> Put(Put(Put(EmptyDict, "@context", context), "id", id), "type", type)]

\* Entity.from_dict, lines 69-77; cls(None, None) has the default context, and
\* an id and a type that the update overwrites
from_dict(h, entity) ==
    IF Missing(h, entity, "id") THEN [raised |-> "NgsiMissingIdError", payload |-> entity]
    ELSE IF Missing(h, entity, "type")
    THEN [raised |-> "NgsiMissingTypeError", payload |-> entity]
    ELSE IF Missing(h, entity, "@context")
    THEN [raised |-> "NgsiMissingContextError", payload |-> entity]
    ELSE [raised |-> None,
          payload |-> ODUpdate(NewPayload(NoneVal, NoneVal, Ref(DEFAULT_REF)), entity)]

\* Entity.to_dict, lines 142-149: the payload itself, or a copy of it with
\* @context moved last; the copy's @context is the entity's own list
to_dict(payload, contextfirst) ==
    IF contextfirst THEN payload
    ELSE ODSet(ODDel(payload, "@context"), "@context", payload.vals["@context"])

NoRoundTrip == [of |-> 0, raised |-> None, same |-> FALSE]

EmptyOD == [keys |-> <<>>, vals |-> EmptyDict]

\* a dict as a caller sees it: each list by its items
Seen(h, d) == [keys |-> d.keys, vals |-> [k \in DOMAIN d.vals |-> Contents(h, d.vals[k])]]

NoFromDict == [called |-> FALSE, doc |-> EmptyOD, raised |-> None, made |-> 0, n |-> 0]

NoToDict == [of |-> 0, contextfirst |-> FALSE, before |-> EmptyOD]

NoBuilt == [fn |-> "none", value |-> NoneVal, unitcode |-> NoneVal, observedat |-> NoneVal,
            datasetid |-> NoneVal, userdata |-> EmptyDict, after |-> EmptyDict,
            out |-> Failed(None)]

\* no Entity object yet; the class attribute DEFAULT is the one list object
InitEntity ==
    /\ heap = <<DEFAULT>>
    /\ objs = <<>>
    /\ rt = NoRoundTrip
    /\ fd = NoFromDict
    /\ td = NoToDict
    /\ builders = <<>>
    /\ own = <<>>
    /\ bcall = NoBuilt

InitEndpoint ==
    /\ client \in [overwrite : BOOLEAN, ignore_errors : BOOLEAN]
    /\ broker \in Stores
    /\ call = [c \in Callers |-> Idle]
    /\ stack = [c \in Callers |-> <<>>]
    /\ ret = [c \in Callers |-> Pending]
    /\ log = [c \in Callers |-> <<>>]
    /\ pre = [c \in Callers |-> broker]
    /\ prev = [c \in Callers |-> NoPrev]

Init == InitEndpoint /\ InitEntity

Next ==
    \E c \in Callers :
        \/ Invoke(c)
        \/ create(c)
        \/ delete(c)
        \/ exists(c)
        \/ upsert(c)
        \/ update(c)

\* The entity lifecycle: create, upsert, update, exists and delete.
Spec == Init /\ [][Next]_vars

NextQuery ==
    \E c \in Callers :
        \/ InvokeQuery(c)
        \/ query(c)
        \/ count(c)

\* The queries: _query and count.
SpecQuery == Init /\ [][NextQuery]_vars

\* Two clients of one broker, each with the endpoint of its own and an entity
\* of its own under the one id; the broker takes one request at a time.
Clients == {"c1", "c2"}

EntityOf(c) == [id |-> IdX, attrs |-> IF c = "c1" THEN {"temperature"} ELSE {"pressure"}]

ClientCalls(c) ==
    {ACall("create", AnEntity(EntityOf(c)), s, o, FALSE, NoArgs) : s \in BOOLEAN, o \in BOOLEAN}
    \cup {ACall("upsert", AnEntity(EntityOf(c)), FALSE, FALSE, FALSE, NoArgs)}
    \cup {ACall("update", AnEntity(EntityOf(c)), FALSE, FALSE, x, NoArgs) : x \in BOOLEAN}
    \cup {ACall("delete", AnEntity(EntityOf(c)), FALSE, FALSE, FALSE, NoArgs)}

\* each client makes one call
InvokeOnce(c) == call[c].op = "idle" /\ Calling(c, ClientCalls(c))

InitClients ==
    /\ client \in [overwrite : BOOLEAN, ignore_errors : BOOLEAN]
    /\ broker \in Stores
    /\ call = [c \in Clients |-> Idle]
    /\ stack = [c \in Clients |-> <<>>]
    /\ ret = [c \in Clients |-> Pending]
    /\ log = [c \in Clients |-> <<>>]
    /\ pre = [c \in Clients |-> broker]
    /\ prev = [c \in Clients |-> NoPrev]

InitConcurrent == InitClients /\ InitEntity

NextConcurrent ==
    \E c \in Clients :
        \/ InvokeOnce(c)
        \/ create(c)
        \/ delete(c)
        \/ exists(c)
        \/ upsert(c)
        \/ update(c)

\* Concurrent calls: the steps of the two clients' calls interleave.
SpecConcurrent == InitConcurrent /\ [][NextConcurrent]_vars

---------------------------------------------------------------------------
(* The operations on entities *)

\* the ids, types and explicit context lists given to the constructor
EntityIds == {<<"x">>, IdX}
EntityTypes == {"RoomObserved"}
ContextLists == {<<>>, <<"https://example.org/context">>}

\* the names and values given to prop, gprop, tprop and rel
AttrNames == {"temperature", "@context"}
PropValues == {IntVal(23), NoneVal}
GeoValues == {Tuple(<<44, 5>>), IntVal(23)}
TemporalValues == {Str("2021-10-01"), Str("yesterday"), Date(1)}
RelValues == {Chars(<<"y">>)}

\* NgsiDict.prop, gprop, tprop and rel: the document is installed under the
\* name once it is built; a builder that raises leaves the payload as it was
Installed(payload, name, built) ==
    IF built.raised = None THEN ODSet(payload, name, Doc(built.doc)) ELSE payload

\* what an earlier call observed of an entity is dropped once entities change
Forget ==
    /\ rt' = NoRoundTrip
    /\ fd' = NoFromDict
    /\ td' = NoToDict

SetAttr(i, name, doc) ==
    /\ objs' = [objs EXCEPT ![i] = Installed(@, name, doc)]
    /\ Forget
    /\ UNCHANGED <<pvars, heap, builders, own, bcall>>

\* Entity(id, type): the context is the default argument, the list DEFAULT
EntityDefault ==
    /\ Len(objs) < MaxEntities
    /\ \E id \in EntityIds, type \in EntityTypes :
         objs' = Append(objs, NewPayload(Chars(Urn_prefix(id)), Str(type), Ref(DEFAULT_REF)))
    /\ own' = Append(own, heap[DEFAULT_REF])
    /\ Forget
    /\ UNCHANGED <<pvars, heap, builders, bcall>>

\* Entity(id, type, context): the context is a list of the caller's
EntityWithContext ==
    /\ Len(objs) < MaxEntities
    /\ \E id \in EntityIds, type \in EntityTypes, context \in ContextLists :
         /\ heap' = Append(heap, context)
         /\ objs' = Append(objs, NewPayload(Chars(Urn_prefix(id)), Str(type),
                                            Ref(Len(heap) + 1)))
         /\ own' = Append(own, context)
    /\ Forget
    /\ UNCHANGED <<pvars, builders, bcall>>

prop(i) ==
    \E name \in AttrNames, value \in PropValues :
        SetAttr(i, name, build_property(value, NoneVal, NoneVal, NoneVal, EmptyDict))

gprop(i) ==
    \E name \in AttrNames, value \in GeoValues :
        SetAttr(i, name, build_geoproperty(value))

tprop(i) ==
    \E name \in AttrNames, value \in TemporalValues :
        SetAttr(i, name, build_temporal_property(value))

rel(i) ==
    \E name \in AttrNames, value \in RelValues :
        SetAttr(i, name, build_relationship(value, NoneVal, EmptyDict))

\* Entity.from_dict(e.to_dict(contextfirst=True)), and the comparison of its
\* to_dict(contextfirst=True) with that of e
RoundTrip(i) ==
    /\ LET sent == to_dict(objs[i], TRUE)
           back == from_dict(heap, sent)
       IN  rt' = [of |-> i, raised |-> back.raised,
                  same |-> back.raised = None
                           /\ ODEq(heap, to_dict(back.payload, TRUE), sent)]
    /\ UNCHANGED <<pvars, heap, objs, fd, td, builders, own, bcall>>

\* a field a document does not have
Absent == [t |-> "absent"]

\* the documents given to from_dict: each of id, type and @context is absent,
\* empty or filled; there may be an attribute besides
DocIds == {Absent, Chars(<<>>), Chars(<<"x">>), Chars(IdX)}
DocTypes == {Absent, Str(""), Str("RoomObserved")}
DocAttrs == {Absent, Doc(build_property(IntVal(23), NoneVal, NoneVal, NoneVal, EmptyDict).doc)}
DocContexts == {[present |-> FALSE, items |-> <<>>], [present |-> TRUE, items |-> <<>>],
                [present |-> TRUE, items |-> <<"https://example.org/context">>]}

WithField(d, k, v) == IF v = Absent THEN d ELSE ODSet(d, k, v)

Document(id, type, temperature, context) ==
    WithField(WithField(WithField(WithField(EmptyOD, "id", id), "type", type),
                        "temperature", temperature), "@context", context)

\* Entity.from_dict(doc), doc a dict of the caller's with its own @context list;
\* the new Entity exists once cls(None, None) is reached, after the three tests
FromDict ==
    /\ Len(objs) < MaxEntities
    /\ \E id \in DocIds, type \in DocTypes, temperature \in DocAttrs, context \in DocContexts :
         LET h == Append(heap, context.items)
             doc == Document(id, type, temperature,
                             IF context.present THEN Ref(Len(heap) + 1) ELSE Absent)
             out == from_dict(h, doc)
         IN  /\ fd' = [called |-> TRUE, doc |-> Seen(h, doc), raised |-> out.raised,
                       made |-> IF out.raised = None THEN Len(objs) + 1 ELSE 0,
                       n |-> Len(objs)]
             /\ IF out.raised = None
                THEN /\ heap' = h
                     /\ objs' = Append(objs, out.payload)
                     /\ own' = Append(own, context.items)
                ELSE UNCHANGED <<heap, objs, own>>
    /\ rt' = NoRoundTrip
    /\ td' = NoToDict
    /\ UNCHANGED <<pvars, builders, bcall>>

NextEntity ==
    \/ EntityDefault
    \/ EntityWithContext
    \/ \E i \in DOMAIN objs : prop(i)
    \/ \E i \in DOMAIN objs : gprop(i)
    \/ \E i \in DOMAIN objs : tprop(i)
    \/ \E i \in DOMAIN objs : rel(i)
    \/ \E i \in DOMAIN objs : RoundTrip(i)
    \/ FromDict

\* the longest a context list grows
MaxContext == 3

\* Entity.to_dict, lines 143-144: with contextfirst the dict returned is
\* self._payload itself, so what the caller does to it is done to the entity
to_dict_is_payload(contextfirst) == contextfirst

\* what a caller does to the dict d it got from to_dict: d[k] = v, del d[k]
Mutated(d, m) ==
    CASE m = "set" -> ODSet(d, "temperature", Str("mutated"))
      [] m = "add" -> ODSet(d, "extra", Str("mutated"))
      [] m = "del" -> ODDel(d, "type")

\* d = e.to_dict(contextfirst), then the caller adds, replaces or removes a
\* key of d
ToDictMutate(i) ==
    /\ \E contextfirst \in BOOLEAN, m \in {"set", "add", "del"} :
         /\ "type" \in DOMAIN objs[i].vals
         /\ td' = [of |-> i, contextfirst |-> contextfirst,
                   before |-> Seen(heap, to_dict(objs[i], contextfirst))]
         /\ objs' = IF to_dict_is_payload(contextfirst)
                    THEN [objs EXCEPT ![i] = Mutated(to_dict(@, contextfirst), m)]
                    ELSE objs
    /\ rt' = NoRoundTrip
    /\ fd' = NoFromDict
    /\ UNCHANGED <<pvars, heap, builders, own, bcall>>

\* d = e.to_dict(contextfirst), then d["@context"].append(uri): the list is
\* the one list object that the dict returned refers to
ToDictAppend(i) ==
    /\ \E contextfirst \in BOOLEAN :
         LET d == to_dict(objs[i], contextfirst) IN
         /\ "@context" \in DOMAIN d.vals
         /\ "ref" \in DOMAIN d.vals["@context"]
         /\ Len(heap[d.vals["@context"].ref]) < MaxContext
         /\ td' = [of |-> i, contextfirst |-> contextfirst, before |-> Seen(heap, d)]
         /\ heap' = [heap EXCEPT ![d.vals["@context"].ref] =
                        Append(@, "https://example.org/appended")]
    /\ rt' = NoRoundTrip
    /\ fd' = NoFromDict
    /\ UNCHANGED <<pvars, objs, builders, own, bcall>>

NextCopy ==
    \/ EntityDefault
    \/ EntityWithContext
    \/ \E i \in DOMAIN objs : ToDictMutate(i)
    \/ \E i \in DOMAIN objs : ToDictAppend(i)

\* the names and the value given to setattr: a reserved name, an empty str
\* (prop, gprop, tprop and rel are given the reserved name @context)
SetNames == {"id", "type"}
SetValues == {Chars(<<>>)}

\* Entity.setattr(attr, value), lines 100-101: self._payload[attr] = value
setattr(i) ==
    /\ \E attr \in SetNames, value \in SetValues :
         objs' = [objs EXCEPT ![i] = ODSet(@, attr, value)]
    /\ Forget
    /\ UNCHANGED <<pvars, heap, builders, own, bcall>>

NextAttr ==
    \/ EntityDefault
    \/ FromDict
    \/ \E i \in DOMAIN objs : setattr(i)
    \/ \E i \in DOMAIN objs : prop(i)
    \/ \E i \in DOMAIN objs : gprop(i)
    \/ \E i \in DOMAIN objs : tprop(i)
    \/ \E i \in DOMAIN objs : rel(i)

\* the number of ContextBuilder objects constructed in a behaviour
MaxBuilders == 1

ContextUris == {"https://example.org/added"}

\* ContextBuilder(): self._ctx is the list ContextBuilder.DEFAULT itself
ContextBuilderDefault ==
    /\ Len(builders) < MaxBuilders
    /\ builders' = Append(builders, DEFAULT_REF)
    /\ UNCHANGED <<pvars, heap, objs, rt, fd, td, own, bcall>>

\* ContextBuilder(ctx): self._ctx is the caller's list
ContextBuilderWith ==
    /\ Len(builders) < MaxBuilders
    /\ \E ctx \in ContextLists :
         /\ heap' = Append(heap, ctx)
         /\ builders' = Append(builders, Len(heap) + 1)
    /\ UNCHANGED <<pvars, objs, rt, fd, td, own, bcall>>

\* list.remove(uri): the list without the first uri in it
RemoveFirst(l, uri) ==
    LET at == CHOOSE i \in 1..Len(l) : l[i] = uri /\ \A j \in 1..(i - 1) : l[j] # uri
    IN  SubSeq(l, 1, at - 1) \o SubSeq(l, at + 1, Len(l))

\* ContextBuilder.add(uri): self._ctx.append(uri)
add(b) ==
    /\ Len(heap[builders[b]]) < MaxContext
    /\ \E uri \in ContextUris : heap' = [heap EXCEPT ![builders[b]] = Append(@, uri)]
    /\ Forget
    /\ UNCHANGED <<pvars, objs, builders, own, bcall>>

\* ContextBuilder.remove(uri): self._ctx.remove(uri), for a uri of the list
remove(b) ==
    /\ \E uri \in Range(heap[builders[b]]) :
         heap' = [heap EXCEPT ![builders[b]] = RemoveFirst(@, uri)]
    /\ Forget
    /\ UNCHANGED <<pvars, objs, builders, own, bcall>>

\* e.context.append(uri): the context list of one entity changed in place
AppendContext(i) ==
    LET ref == objs[i].vals["@context"].ref IN
    /\ Len(heap[ref]) < MaxContext
    /\ Len(own[i]) < MaxContext
    /\ \E uri \in ContextUris :
         /\ heap' = [heap EXCEPT ![ref] = Append(@, uri)]
         /\ own' = [own EXCEPT ![i] = Append(@, uri)]
    /\ Forget
    /\ UNCHANGED <<pvars, objs, builders, bcall>>

NextContext ==
    \/ ContextBuilderDefault
    \/ ContextBuilderWith
    \/ \E b \in DOMAIN builders : add(b)
    \/ \E b \in DOMAIN builders : remove(b)
    \/ EntityDefault
    \/ EntityWithContext
    \/ \E i \in DOMAIN objs : AppendContext(i)

\* the arguments given to the builders: a value of each kind, and metadata
\* given or left out
BuildValues ==
    {IntVal(23), PyVal("float", 231, ""), PyVal("bool", 1, ""), Str("hot"),
     PyVal("list", 2, ""), PyVal("dict", 1, ""), NoneVal, DateTime(1), Tuple(<<44, 5>>)}
UnitCodes == {NoneVal, Str("CEL")}
ObservedAts == {NoneVal, Str("2021-10-01T12:00:00Z"), DateTime(2)}
DatasetIds == {NoneVal, Chars(<<"d">>)}
RelTargets == {Chars(<<"y">>), Chars(IdY)}
UserData ==
    {EmptyDict, "extra" :> Str("e"), "type" :> Str("Mine"), "value" :> IntVal(0),
     "object" :> Chars(<<"z">>), ("unitCode" :> Str("u")) @@ ("extra" :> Str("e"))}

\* build_property(value, unitcode, observedat, datasetid, userdata); the
\* builder reads userdata and assigns nothing to it
BuildProperty ==
    /\ \E value \in BuildValues, unitcode \in UnitCodes, observedat \in ObservedAts,
          datasetid \in DatasetIds, userdata \in UserData :
         bcall' = [fn |-> "build_property", value |-> value, unitcode |-> unitcode,
                   observedat |-> observedat, datasetid |-> datasetid,
                   userdata |-> userdata, after |-> userdata,
                   out |-> build_property(value, unitcode, observedat, datasetid, userdata)]
    /\ UNCHANGED <<pvars, heap, objs, rt, fd, td, builders, own>>

\* build_relationship(value, observedat, userdata)
BuildRelationship ==
    /\ \E value \in RelTargets, observedat \in ObservedAts, userdata \in UserData :
         bcall' = [fn |-> "build_relationship", value |-> value, unitcode |-> NoneVal,
                   observedat |-> observedat, datasetid |-> NoneVal,
                   userdata |-> userdata, after |-> userdata,
                   out |-> build_relationship(value, observedat, userdata)]
    /\ UNCHANGED <<pvars, heap, objs, rt, fd, td, builders, own>>

\* the values given to build_temporal_property: native and str, good and bad
TemporalArgs ==
    {DateTime(1), Date(1), Date(2), Time(1), Str("2021-10-01T12:00:00Z"),
     Str("2021-10-01"), Str("12:00:00"), Str("yesterday"), IntVal(23), NoneVal}

\* build_temporal_property(value)
BuildTemporal ==
    /\ \E value \in TemporalArgs :
         bcall' = [fn |-> "build_temporal_property", value |-> value,
                   unitcode |-> NoneVal, observedat |-> NoneVal, datasetid |-> NoneVal,
                   userdata |-> EmptyDict, after |-> EmptyDict,
                   out |-> build_temporal_property(value)]
    /\ UNCHANGED <<pvars, heap, objs, rt, fd, td, builders, own>>

NextBuild ==
    \/ BuildProperty
    \/ BuildRelationship
    \/ BuildTemporal

InitIdle ==
    /\ client = [overwrite |-> FALSE, ignore_errors |-> FALSE]
    /\ broker = <<>>
    /\ call = [c \in Callers |-> Idle]
    /\ stack = [c \in Callers |-> <<>>]
    /\ ret = [c \in Callers |-> Pending]
    /\ log = [c \in Callers |-> <<>>]
    /\ pre = [c \in Callers |-> broker]
    /\ prev = [c \in Callers |-> NoPrev]

\* The entity model: entities are built and their attributes set.
InitEntities == InitIdle /\ InitEntity

SpecEntity == InitEntities /\ [][NextEntity]_vars

\* The attribute builders, called with arguments of every kind.
SpecBuild == InitEntities /\ [][NextBuild]_vars

\* The attributes of entities, set under any name.
SpecAttr == InitEntities /\ [][NextAttr]_vars

\* The context lists of the builders and of the entities.
SpecContext == InitEntities /\ [][NextContext]_vars

\* The documents to_dict hands out, and what callers do to them.
SpecCopy == InitEntities /\ [][NextCopy]_vars

---------------------------------------------------------------------------
(* Properties of the entity lifecycle *)

\* the call of c has ended, and was a call of op
Ended(c, op) == Done(c) /\ call[c].op = op

\* the entity the call of c was given
Arg(c) == call[c].entity.e

ReturnedEntity(c) == ret[c].kind = "entity" /\ ret[c].val = Arg(c)
ReturnedNone(c) == ret[c].kind = "None"
Raised(c, exc) == ret[c].kind = "exc" /\ ret[c].val = exc

\* the store holds exactly e's attributes under e's id
Holds(b, e) == e.id \in DOMAIN b /\ b[e.id] = e.attrs

\* the first request of the call was answered with a conflict
Conflict(c) == Len(log[c]) >= 1 /\ log[c][1].m = "POST" /\ log[c][1].st = HTTP_CONFLICT

\* C1: create with overwrite (by argument or by the client's default) and without
\* skip, answered 409, issues POST, DELETE, POST, returns the entity and leaves the
\* broker holding exactly the new entity's attributes.
C1_OverwriteReplaces ==
    \A c \in Callers :
        (/\ Ended(c, "create")
         /\ ~call[c].skip
         /\ (call[c].overwrite \/ client.overwrite)
         /\ Conflict(c)
         /\ NoFault(c))
        => /\ Methods(c) = <<"POST", "DELETE", "POST">>
           /\ ReturnedEntity(c)
           /\ Holds(broker, Arg(c))

\* C2: upsert on an absent id issues one POST; on a present id it issues POST,
\* DELETE, POST; either way it returns the entity and the broker then holds only
\* the new entity's attributes, whatever the client's configuration.
C2_UpsertReplaces ==
    \A c \in Callers :
        (Ended(c, "upsert") /\ NoFault(c))
        => /\ Arg(c).id \notin DOMAIN pre[c] => Methods(c) = <<"POST">>
           /\ Arg(c).id \in DOMAIN pre[c] => Methods(c) = <<"POST", "DELETE", "POST">>
           /\ ReturnedEntity(c)
           /\ Holds(broker, Arg(c))

\* C3: update returns None without DELETE or POST when check_exists holds and the
\* entity is absent; in every other case it issues DELETE then POST and returns
\* the entity.
C3_UpdateReplaces ==
    \A c \in Callers :
        (Ended(c, "update") /\ NoFault(c))
        => IF call[c].check_exists /\ Arg(c).id \notin DOMAIN pre[c]
           THEN /\ ReturnedNone(c)
                /\ \A i \in 1..Len(log[c]) : log[c][i].m \notin {"DELETE", "POST"}
           ELSE /\ Len(log[c]) >= 2
                /\ SubSeq(Methods(c), Len(log[c]) - 1, Len(log[c])) = <<"DELETE", "POST">>
                /\ ReturnedEntity(c)
                /\ Holds(broker, Arg(c))

\* C4: create without skip or overwrite, on a client that does not overwrite,
\* answered 409, raises NgsiAlreadyExistsError after its one POST and leaves the
\* broker's store as it was.
C4_ConflictRaises ==
    \A c \in Callers :
        (/\ Ended(c, "create")
         /\ ~call[c].skip /\ ~call[c].overwrite /\ ~client.overwrite
         /\ Conflict(c))
        => /\ Raised(c, "NgsiAlreadyExistsError")
           /\ Methods(c) = <<"POST">>
           /\ broker = pre[c]

C4_Witness ==
    \E c \in Callers :
        /\ Ended(c, "create")
        /\ ~call[c].skip /\ ~call[c].overwrite /\ ~client.overwrite
        /\ Conflict(c)
        /\ Raised(c, "NgsiAlreadyExistsError")

\* C5: create with skip, answered 409, returns None after its one POST and leaves
\* the broker's store as it was, whatever overwrite and the client's default are.
C5_SkipReturnsNone ==
    \A c \in Callers :
        (Ended(c, "create") /\ call[c].skip /\ Conflict(c))
        => /\ ReturnedNone(c)
           /\ Methods(c) = <<"POST">>
           /\ broker = pre[c]

C5_Witness ==
    \E c \in Callers :
        /\ Ended(c, "create") /\ call[c].skip /\ Conflict(c)
        /\ call[c].overwrite /\ client.overwrite
        /\ ReturnedNone(c)

\* the Location of the response to the call's POST ends with the entity's id
LocationMatches(c) ==
    /\ "Location" \in DOMAIN log[c][1].headers
    /\ rsplit_last(log[c][1].headers["Location"]) = Arg(c).id

\* C6: on a success status create returns the entity exactly when the Location's
\* trailing segment is the entity's id; otherwise (Location missing or different)
\* it raises NgsiApiError, or returns None when the client ignores errors.
C6_LocationChecked ==
    \A c \in Callers :
        (Ended(c, "create") /\ Len(log[c]) = 1 /\ ok(log[c][1].st))
        => /\ ReturnedEntity(c) <=> LocationMatches(c)
           /\ ~LocationMatches(c) =>
                 IF client.ignore_errors THEN ReturnedNone(c) ELSE Raised(c, "NgsiApiError")

SameResult(r1, r2) == r1.kind = r2.kind /\ r1.val = r2.val

\* C7: a second upsert of the same entity right after a first one leaves the
\* broker as the first left it, holding exactly the entity's attributes, and
\* returns what the first returned.
C7_UpsertIdempotent ==
    \A c \in Callers :
        (/\ Ended(c, "upsert")
         /\ prev[c].op = "upsert" /\ prev[c].entity = call[c].entity
         /\ prev[c].nofault /\ NoFault(c))
        => /\ broker = pre[c]
           /\ Holds(broker, Arg(c))
           /\ ReturnedEntity(c)
           /\ SameResult(ret[c], prev[c].ret)

\* C8: exists returns true exactly when the GET succeeded and its payload has
\* an @context key, returns false without raising otherwise, issues the GET
\* alone and leaves the broker's store as it was.
C8_ExistsProbe ==
    \A c \in Callers :
        Ended(c, "exists")
        => /\ Methods(c) = <<"GET">>
           /\ ret[c].kind = "bool"
           /\ ret[c].val <=> (ok(log[c][1].st) /\ "@context" \in log[c][1].body)
           /\ broker = pre[c]

C8_Witness ==
    \E c \in Callers :
        /\ Ended(c, "exists")
        /\ ok(log[c][1].st) /\ "@context" \notin log[c][1].body
        /\ ret[c].kind = "bool" /\ ~ret[c].val

---------------------------------------------------------------------------
(* Properties of concurrent calls *)

\* the number of requests of method m the call of c has issued
Issued(c, m) == Cardinality({i \in 1..Len(log[c]) : log[c][i].m = m})

\* the number of frames of method fn on the stack of c
Frames(c, fn) == Cardinality({i \in 1..Len(stack[c]) : stack[c][i].fn = fn})

\* the call of c sent a DELETE that succeeded and then the re-create POST, and
\* that create did not return the entity
FinalCreateFailed(c) ==
    LET n == Len(log[c]) IN
    /\ Done(c) /\ n >= 2
    /\ log[c][n - 1].m = "DELETE" /\ ok(log[c][n - 1].st)
    /\ log[c][n].m = "POST"
    /\ ~ReturnedEntity(c)

\* C14: in upsert and update, whatever other clients do, a request follows a
\* DELETE only when the DELETE succeeded, and it is the re-create POST; a
\* DELETE that failed is the last request and its error is raised by the call;
\* when the DELETE succeeded and the final create failed, the call raises the
\* create's error (it returns neither the entity nor None) and the broker
\* holds no entity under the id.
C14_FailuresSurface ==
    \A c \in Clients :
        call[c].op \in {"upsert", "update"}
        => LET n == Len(log[c]) IN
           /\ \A i \in 1..n :
                 (log[c][i].m = "DELETE" /\ i < n)
                 => ok(log[c][i].st) /\ i + 1 = n /\ log[c][n].m = "POST"
           /\ (Done(c) /\ n >= 1 /\ log[c][n].m = "DELETE")
              => /\ ~ok(log[c][n].st)
                 /\ Raised(c, raise_for_status(log[c][n].st))
           /\ FinalCreateFailed(c)
              => /\ ret[c].kind = "exc"
                 /\ ~ok(log[c][n].st) => Raised(c, raise_for_status(log[c][n].st))
                 /\ Arg(c).id \notin DOMAIN broker

\* C16: once two upserts of the one id, with different attributes, have both
\* ended, in whatever order their requests reached the broker, the broker
\* holds the id with exactly the attributes of the one or of the other.
C16_ConcurrentUpserts ==
    (\A c \in Clients : Ended(c, "upsert") /\ NoFault(c))
    => /\ IdX \in DOMAIN broker
       /\ \E c \in Clients : broker[IdX] = EntityOf(c).attrs

\* C15: a call of create, update or upsert issues at most two POSTs, one
\* DELETE and one GET, whatever the broker answers and whatever the flags and
\* the client's defaults are; the stack never holds two frames of create nor
\* more than three frames, and an update entered from create calls nothing, so
\* create is not entered again from it; upsert issues its DELETE only after its
\* first POST was answered 409, and nothing but POST, DELETE, POST.
C15_BoundedRetry ==
    \A c \in Clients :
        call[c].op \in {"create", "update", "upsert"}
        => /\ Issued(c, "POST") <= 2
           /\ Issued(c, "DELETE") <= 1
           /\ Issued(c, "GET") <= 1
           /\ Len(stack[c]) <= 3
           /\ Frames(c, "create") <= 1
           /\ Frames(c, "upsert") <= 1
           /\ \A i \in 2..Len(stack[c]) :
                 stack[c][i].fn = "update"
                 => /\ stack[c][i - 1].fn = "create"
                    /\ ~stack[c][i].check_exists
                    /\ i = Len(stack[c])
           /\ call[c].op = "create" => Methods(c) \in {<<>>, <<"POST">>}
           /\ call[c].op = "upsert"
              => /\ \E k \in 0..3 : Methods(c) = SubSeq(<<"POST", "DELETE", "POST">>, 1, k)
                 /\ Len(log[c]) >= 2 => log[c][1].st = HTTP_CONFLICT

C15_Witness ==
    \E c \in Clients :
        /\ Ended(c, "upsert")
        /\ Methods(c) = <<"POST", "DELETE", "POST">>
        /\ log[c][3].st = HTTP_CONFLICT
        /\ NoFault(c)

\* C17: upsert never raises NgsiAlreadyExistsError, whatever the other client
\* does to the id meanwhile.
C17_ConflictAbsorbed ==
    \A c \in Clients : Ended(c, "upsert") => ~Raised(c, "NgsiAlreadyExistsError")

\* C17, amended: the conflict upsert's first POST meets is absorbed; upsert
\* raises NgsiAlreadyExistsError only for its re-create POST, when the id was
\* created again between its DELETE and that POST and the client does not
\* overwrite by default.
C17_FirstConflictAbsorbed ==
    \A c \in Clients :
        (Ended(c, "upsert") /\ Raised(c, "NgsiAlreadyExistsError"))
        => /\ Methods(c) = <<"POST", "DELETE", "POST">>
           /\ log[c][1].st = HTTP_CONFLICT
           /\ ok(log[c][2].st)
           /\ log[c][3].st = HTTP_CONFLICT
           /\ ~client.overwrite

C17_Witness ==
    \E c \in Clients :
        /\ Ended(c, "upsert") /\ Raised(c, "NgsiAlreadyExistsError")
        /\ Methods(c) = <<"POST", "DELETE", "POST">>
        /\ NoFault(c)
        /\ \A d \in Clients \ {c} : call[d].op = "create" /\ Done(d) /\ NoFault(d)

---------------------------------------------------------------------------
(* Properties of the queries *)

ZeroNotSent(params, k) == k \in DOMAIN params => params[k] # 0

\* C9: _query and count without type and q raise the parameter error and issue
\* no request; with one of them they issue one GET, in which a limit or an
\* offset of zero is not sent.
C9_ZeroNeverSent ==
    \A c \in Callers :
        (Done(c) /\ call[c].op \in {"_query", "count"})
        => IF call[c].args.type = None /\ call[c].args.q = None
           THEN Raised(c, "ValueError") /\ log[c] = <<>>
           ELSE /\ Methods(c) = <<"GET">>
                /\ ZeroNotSent(log[c][1].params, "limit")
                /\ ZeroNotSent(log[c][1].params, "offset")

\* C9, amended: as above, but it is _query that leaves a zero limit or offset
\* out; count always sends limit=0 and count=true, and never an offset.
C9_QueryFilters ==
    \A c \in Callers :
        (Done(c) /\ call[c].op \in {"_query", "count"})
        => IF call[c].args.type = None /\ call[c].args.q = None
           THEN Raised(c, "ValueError") /\ log[c] = <<>>
           ELSE /\ Methods(c) = <<"GET">>
                /\ LET p == log[c][1].params IN
                   IF call[c].op = "_query"
                   THEN /\ ZeroNotSent(p, "limit")
                        /\ ZeroNotSent(p, "offset")
                        /\ "limit" \in DOMAIN p <=> call[c].args.limit # 0
                        /\ "offset" \in DOMAIN p <=> call[c].args.offset # 0
                   ELSE /\ "limit" \in DOMAIN p /\ p["limit"] = 0
                        /\ "count" \in DOMAIN p /\ p["count"] = "true"
                        /\ "offset" \notin DOMAIN p

C9_Witness ==
    \E c \in Callers :
        /\ Ended(c, "_query")
        /\ call[c].args.type # None /\ call[c].args.limit = 0 /\ call[c].args.offset # 0
        /\ Methods(c) = <<"GET">>
        /\ DOMAIN log[c][1].params = {"offset", "type"}

---------------------------------------------------------------------------
(* Properties of the entity model *)

\* C10: for an entity built by the constructor (default, explicit or empty
\* context) and any prop/gprop/tprop/rel calls,
\* Entity.from_dict(e.to_dict(True)) succeeds and its to_dict(True) equals
\* e.to_dict(True).
C10_RoundTrip ==
    rt.of # 0 => rt.raised = None /\ rt.same

\* the error from_dict owes a document: that of the first of id, type and
\* @context the document does not have, or None when it has the three
FirstAbsent(doc) ==
    IF "id" \notin DOMAIN doc.vals THEN "NgsiMissingIdError"
    ELSE IF "type" \notin DOMAIN doc.vals THEN "NgsiMissingTypeError"
    ELSE IF "@context" \notin DOMAIN doc.vals THEN "NgsiMissingContextError"
    ELSE None

\* C11: from_dict(doc) raises the missing-id, missing-type or missing-context
\* error exactly when doc lacks id, type or @context, the first lacking field
\* deciding, and then makes no entity; when doc has the three it succeeds and
\* every field of the new entity equals that of doc.
C11_MissingFieldErrors ==
    fd.called =>
        /\ fd.raised = FirstAbsent(fd.doc)
        /\ fd.raised # None => fd.made = 0 /\ Len(objs) = fd.n
        /\ fd.raised = None =>
              /\ fd.made = Len(objs) /\ Len(objs) = fd.n + 1
              /\ \A k \in DOMAIN fd.doc.vals :
                    /\ k \in DOMAIN objs[fd.made].vals
                    /\ Contents(heap, objs[fd.made].vals[k]) = fd.doc.vals[k]

\* C12: after a caller mutated the document it got from to_dict(contextfirst)
\* (a key added, replaced or removed, or an item appended to its @context),
\* to_dict(contextfirst) of the entity returns what it returned before.
C12_DefensiveCopy ==
    td.of # 0 => Seen(heap, to_dict(objs[td.of], td.contextfirst)) = td.before

---------------------------------------------------------------------------
(* Properties of the attribute builders *)

\* the kinds of value a Property takes
PropertyKinds == {"int", "float", "bool", "str", "list", "dict"}

\* C13: build_property without userdata returns, for a value that is an int,
\* float, bool, str, list or dict, a document whose type is Property and whose
\* value is the input, with unitCode, observedAt and datasetId exactly when
\* the argument was given; for a value of another kind it raises the
\* unmatched-type error and returns no document.
C13_PropertyDocument ==
    (bcall.fn = "build_property" /\ DOMAIN bcall.userdata = {})
    => IF bcall.value.t \in PropertyKinds
       THEN /\ bcall.out.raised = None
            /\ {"type", "value"} \subseteq DOMAIN bcall.out.doc
            /\ bcall.out.doc["type"] = Str("Property")
            /\ bcall.out.doc["value"] = bcall.value
            /\ "unitCode" \in DOMAIN bcall.out.doc <=> bcall.unitcode # NoneVal
            /\ "observedAt" \in DOMAIN bcall.out.doc <=> bcall.observedat # NoneVal
            /\ "datasetId" \in DOMAIN bcall.out.doc <=> bcall.datasetid # NoneVal
            /\ DOMAIN bcall.out.doc \subseteq
                   {"type", "value", "unitCode", "observedAt", "datasetId"}
       ELSE /\ bcall.out.raised = "NgsiUnmatchedAttributeTypeError"
            /\ DOMAIN bcall.out.doc = {}

C13_Witness ==
    /\ bcall.fn = "build_property" /\ DOMAIN bcall.userdata = {}
    /\ bcall.value.t = "list"
    /\ bcall.unitcode # NoneVal /\ bcall.observedat = NoneVal /\ bcall.datasetid # NoneVal
    /\ bcall.out.raised = None
    /\ DOMAIN bcall.out.doc = {"type", "value", "unitCode", "datasetId"}

\* C19: whatever userdata is given, the document build_property returns has
\* type Property and the input as its value, the document build_relationship
\* returns has type Relationship and the URN of the input as its object, and
\* userdata is after the call what it was before.
C19_ReservedKeysKept ==
    /\ (bcall.fn = "build_property" /\ bcall.out.raised = None)
       => /\ bcall.out.doc["type"] = Str("Property")
          /\ bcall.out.doc["value"] = bcall.value
          /\ bcall.after = bcall.userdata
    /\ bcall.fn = "build_relationship"
       => /\ bcall.out.raised = None
          /\ bcall.out.doc["type"] = Str("Relationship")
          /\ bcall.out.doc["object"] = Chars(Urn_prefix(bcall.value.cs))
          /\ bcall.after = bcall.userdata

---------------------------------------------------------------------------
(* Properties of the contexts *)

\* C18: whatever builders were made and changed by add and remove, and
\* whatever entities were made with the default context and had their context
\* list changed in place, ContextBuilder() builds the two default URIs, and
\* the context of each entity is what it was built with and what was done to
\* that entity's own context since.
C18_NoSharedContext ==
    /\ heap[DEFAULT_REF] = DEFAULT
    /\ \A i \in DOMAIN objs : heap[objs[i].vals["@context"].ref] = own[i]

---------------------------------------------------------------------------
(* Properties of the entity's attributes *)

\* v is a str that is not empty
NonEmptyStr(v) ==
    IF "cs" \in DOMAIN v THEN v.cs # <<>>
    ELSE "s" \in DOMAIN v /\ v.t = "str" /\ v.s # ""

\* the id is a non-empty str with the URN prefix, the type a non-empty str,
\* and there is an @context
EntityInvariant(payload) ==
    /\ {"id", "type", "@context"} \subseteq DOMAIN payload.vals
    /\ "cs" \in DOMAIN payload.vals["id"]
    /\ payload.vals["id"].cs # <<>>
    /\ Urn_prefix(payload.vals["id"].cs) = payload.vals["id"].cs
    /\ NonEmptyStr(payload.vals["type"])

\* the keys of the one payload whose value differs from that of the other
Changed(p, q) ==
    {k \in DOMAIN p.vals \cup DOMAIN q.vals :
        \/ k \notin DOMAIN p.vals
        \/ k \notin DOMAIN q.vals
        \/ p.vals[k] # q.vals[k]}

\* C20: every entity, made by the constructor or by from_dict and whatever
\* setattr, prop, gprop, tprop and rel were then called on it under any name,
\* has a non-empty id with the URN prefix, a non-empty type and an @context;
\* and a call on an entity changes the value under one name at most, removes
\* no key and leaves the other entities as they are.
C20_EntityInvariant ==
    /\ [](\A i \in DOMAIN objs : EntityInvariant(objs[i]))
    /\ [][\A i \in DOMAIN objs :
            /\ Cardinality(Changed(objs[i], objs'[i])) <= 1
            /\ DOMAIN objs[i].vals \subseteq DOMAIN objs'[i].vals
            /\ (objs'[i] # objs[i] => \A j \in DOMAIN objs \ {i} : objs'[j] = objs[j])]_vars

====
